---- MODULE Spec2Model ----
(***************************************************************************)
(* The scaffolder action azure:pipeline:permit                             *)
(* (src/src/actions/run/permitAzurePipeline.ts).                           *)
(*                                                                         *)
(* One handler invocation runs in three synchronous segments, separated by *)
(* its two awaits: up to the call of getCredentials, from the credential   *)
(* answer up to the call of fetch, and the then-callback on the response.  *)
(* Several invocations (Slots) may be in flight at once; the JavaScript    *)
(* event loop interleaves them only at the awaits, so each segment is one  *)
(* action.                                                                 *)
(*                                                                         *)
(* Strings the code only interpolates are TLA+ strings; strings it reads   *)
(* character by character (pipelineId for parseInt, token for base64) are  *)
(* sequences of one-character strings. An optional input field that the    *)
(* caller omits is absent from the input's DOMAIN.                         *)
(***************************************************************************)
EXTENDS Integers, Sequences, FiniteSets, TLC

VARIABLES
    integrations,   \* ScmIntegrationRegistry given at construction: the configured hosts
    todo,           \* per slot: the inputs the scaffolder will still hand to the handler
    pc,             \* per slot: "idle", "awaitCredentials", "awaitFetch" or "done"
    input,          \* per slot: ctx.input of the current invocation
    host,           \* per slot: const host
    apiVersion,     \* per slot: const apiVersion
    url,            \* per slot: const url
    credentials,    \* per slot: const credentials
    token,          \* per slot: const token
    trace,          \* per slot: the current invocation's calls on its collaborators, in order
    result,         \* per slot: the state of the promise the handler returned
    sent,           \* per slot: every request handed to fetch, over all invocations
    history         \* per slot: the invocations whose credential answer has arrived

vars == <<integrations, todo, pc, input, host, apiVersion, url, credentials,
          token, trace, result, sent, history>>

(***************************************************************************)
(* Bounds of the model.                                                    *)
(***************************************************************************)
NumSlots == 2
MaxInvocations == 3

Slots == 1..NumSlots

(***************************************************************************)
(* JavaScript values.                                                      *)
(***************************************************************************)
Undefined == [js |-> "undefined"]
NaN == [nan |-> TRUE]
Num(n) == [nan |-> FALSE, value |-> n]

Has(inp, field) == field \in DOMAIN inp

RECURSIVE Str(_)
Str(chars) ==
    IF chars = <<>> THEN "" ELSE Head(chars) \o Str(Tail(chars))

(***************************************************************************)
(* Lines 112-113: the defaults.                                            *)
(***************************************************************************)
\* the host with the input's server ignored
HostIgnoringServer(inp) == "dev.azure.com"

Host(inp) ==
    IF Has(inp, "server") THEN inp.server ELSE "dev.azure.com"

ApiVersion(inp) ==
    IF Has(inp, "permitsApiVersion") THEN inp.permitsApiVersion ELSE "7.1-preview.1"

(***************************************************************************)
(* Line 114: integrations.byHost(host), an integration or undefined.       *)
(***************************************************************************)
\* the lookup falling back to any configured integration
ByHostOrAny(registry, h) ==
    IF registry # {} THEN [type |-> "azure", host |-> h] ELSE Undefined

ByHost(registry, h) ==
    IF h \in registry THEN [type |-> "azure", host |-> h] ELSE Undefined

NoIntegrationMessage(h) ==
    "No matching integration configuration for host " \o h
        \o ", please check your integrations config"

InputError(message) == [name |-> "InputError", message |-> message]

(***************************************************************************)
(* Line 122: the base URL the credentials are asked for.                   *)
(***************************************************************************)
BaseUrl(h, organization) == "https://" \o h \o "/" \o organization

(***************************************************************************)
(* Lines 128-134: the credential check and the choice of the token.        *)
(***************************************************************************)
\* the check with the test of the input token negated
MissingCredentialsNegated(cred, inp) ==
    cred = Undefined /\ Has(inp, "token")

MissingCredentials(cred, inp) ==
    cred = Undefined /\ ~Has(inp, "token")

NoCredentialsMessage(u) ==
    "No credentials provided " \o u \o ", please check your integrations config"

\* credentials!.token of an undefined credentials is a TypeError
TokenThrows(inp, cred) == ~Has(inp, "token") /\ cred = Undefined

\* the choice with the operands of ?? swapped
TokenPrefersCredentials(inp, cred) ==
    IF cred # Undefined THEN cred.token ELSE inp.token

Token(inp, cred) ==
    IF Has(inp, "token") THEN inp.token ELSE cred.token

TypeError ==
    [name |-> "TypeError",
     message |-> "Cannot read properties of undefined (reading 'token')"]

(***************************************************************************)
(* Lines 136-144: the line that states the intent.                         *)
(***************************************************************************)
IntentLine(inp) ==
    (IF inp.authorized = TRUE THEN "Authorizing" ELSE "Unauthorizing")
        \o " Azure pipeline with ID " \o Str(inp.pipelineId)
        \o " for " \o inp.resourceType
        \o " with ID " \o inp.resourceId \o "."

(***************************************************************************)
(* Line 149: the request URL.                                              *)
(***************************************************************************)
RequestUrl(h, inp, version) ==
    "https://" \o h \o "/" \o inp.organization \o "/" \o inp.project
        \o "/_apis/pipelines/pipelinepermissions/" \o inp.resourceType
        \o "/" \o inp.resourceId \o "?api-version=" \o version

(***************************************************************************)
(* Lines 155-157: the Authorization header, base64 of PAT: and the token.  *)
(* Buffer.from encodes UTF-8; the tokens here are printable ASCII, one     *)
(* byte a character.                                                       *)
(***************************************************************************)
AsciiFrom32 ==
    <<" ", "!", "\"", "#", "$", "%", "&", "'", "(", ")", "*", "+", ",", "-", ".", "/",
      "0", "1", "2", "3", "4", "5", "6", "7", "8", "9", ":", ";", "<", "=", ">", "?",
      "@", "A", "B", "C", "D", "E", "F", "G", "H", "I", "J", "K", "L", "M", "N", "O",
      "P", "Q", "R", "S", "T", "U", "V", "W", "X", "Y", "Z", "[", "\\", "]", "^", "_">>

AsciiFrom97 ==
    <<"a", "b", "c", "d", "e", "f", "g", "h", "i", "j", "k", "l", "m", "n", "o",
      "p", "q", "r", "s", "t", "u", "v", "w", "x", "y", "z", "{", "|", "}", "~">>

CharCode(c) ==
    IF \E k \in DOMAIN AsciiFrom32 : AsciiFrom32[k] = c
    THEN 31 + (CHOOSE k \in DOMAIN AsciiFrom32 : AsciiFrom32[k] = c)
    ELSE 96 + (CHOOSE k \in DOMAIN AsciiFrom97 : AsciiFrom97[k] = c)

Bytes(chars) == [k \in DOMAIN chars |-> CharCode(chars[k])]

Base64Alphabet ==
    <<"A", "B", "C", "D", "E", "F", "G", "H", "I", "J", "K", "L", "M", "N", "O", "P",
      "Q", "R", "S", "T", "U", "V", "W", "X", "Y", "Z", "a", "b", "c", "d", "e", "f",
      "g", "h", "i", "j", "k", "l", "m", "n", "o", "p", "q", "r", "s", "t", "u", "v",
      "w", "x", "y", "z", "0", "1", "2", "3", "4", "5", "6", "7", "8", "9", "+", "/">>

Sextet(n) == Base64Alphabet[n + 1]

RECURSIVE Base64(_)
Base64(bytes) ==
    IF Len(bytes) = 0 THEN ""
    ELSE IF Len(bytes) = 1 THEN
        Sextet(bytes[1] \div 4) \o Sextet((bytes[1] % 4) * 16) \o "=="
    ELSE IF Len(bytes) = 2 THEN
        Sextet(bytes[1] \div 4)
            \o Sextet((bytes[1] % 4) * 16 + bytes[2] \div 16)
            \o Sextet((bytes[2] % 16) * 4) \o "="
    ELSE
        Sextet(bytes[1] \div 4)
            \o Sextet((bytes[1] % 4) * 16 + bytes[2] \div 16)
            \o Sextet((bytes[2] % 16) * 4 + bytes[3] \div 64)
            \o Sextet(bytes[3] % 64)
            \o Base64(SubSeq(bytes, 4, Len(bytes)))

Authorization(tok) ==
    "Basic " \o Base64(Bytes(<<"P", "A", "T", ":">> \o tok))

Headers(tok) ==
    ("Content-Type" :> "application/json")
        @@ ("Accept" :> "application/json")
        @@ ("Authorization" :> Authorization(tok))
        @@ ("X-TFS-FedAuthRedirect" :> "Suppress")

(***************************************************************************)
(* Line 164: parseInt(pipelineId, 10). Leading white space is skipped, one *)
(* sign is read, then the longest run of decimal digits; no digit gives    *)
(* NaN. (The ids here are short: no precision is lost in the double.)      *)
(***************************************************************************)
WhiteSpace == {" ", "\t", "\n", "\r", "\f"}
DecimalDigits == <<"0", "1", "2", "3", "4", "5", "6", "7", "8", "9">>

IsDigit(c) == \E d \in DOMAIN DecimalDigits : DecimalDigits[d] = c
DigitValue(c) == (CHOOSE d \in DOMAIN DecimalDigits : DecimalDigits[d] = c) - 1

RECURSIVE SkipWhiteSpace(_)
SkipWhiteSpace(chars) ==
    IF chars # <<>> /\ Head(chars) \in WhiteSpace
    THEN SkipWhiteSpace(Tail(chars))
    ELSE chars

RECURSIVE DigitPrefix(_)
DigitPrefix(chars) ==
    IF chars # <<>> /\ IsDigit(Head(chars))
    THEN <<Head(chars)>> \o DigitPrefix(Tail(chars))
    ELSE <<>>

RECURSIVE DigitsValue(_)
DigitsValue(digits) ==
    IF digits = <<>> THEN 0
    ELSE 10 * DigitsValue(SubSeq(digits, 1, Len(digits) - 1))
            + DigitValue(digits[Len(digits)])

ParseInt(chars) ==
    LET trimmed == SkipWhiteSpace(chars)
        signed == trimmed # <<>> /\ Head(trimmed) \in {"+", "-"}
        negative == trimmed # <<>> /\ Head(trimmed) = "-"
        digits == DigitPrefix(IF signed THEN Tail(trimmed) ELSE trimmed)
    IN  IF digits = <<>> THEN NaN
        ELSE Num(IF negative THEN 0 - DigitsValue(digits) ELSE DigitsValue(digits))

(***************************************************************************)
(* Lines 160-167: JSON.stringify of the body. A number that is not finite  *)
(* is written null.                                                        *)
(***************************************************************************)
RECURSIVE NatToString(_)
NatToString(n) ==
    IF n < 10 THEN DecimalDigits[n + 1]
    ELSE NatToString(n \div 10) \o DecimalDigits[(n % 10) + 1]

NumberToString(n) ==
    IF n < 0 THEN "-" \o NatToString(0 - n) ELSE NatToString(n)

StringifyNumber(x) ==
    IF x.nan THEN "null" ELSE NumberToString(x.value)

StringifyBoolean(b) == IF b THEN "true" ELSE "false"

Body(inp) ==
    "{\"pipelines\":[{\"authorized\":" \o StringifyBoolean(inp.authorized)
        \o ",\"id\":" \o StringifyNumber(ParseInt(inp.pipelineId)) \o "}]}"

Request(h, inp, version, tok) ==
    [method |-> "PATCH",
     url |-> RequestUrl(h, inp, version),
     headers |-> Headers(tok),
     body |-> Body(inp)]

\* fetch called a second time
FetchesTwice(request) == <<request, request>>

\* Lines 148 and 169: fetch is called once and nothing calls it again
Fetches(request) == <<request>>

(***************************************************************************)
(* Lines 169-179: the then-callback.                                       *)
(***************************************************************************)
\* success taken to be status 200 alone
ResponseOkOnly200(status) == status = 200

ResponseOk(status) == status >= 200 /\ status < 300

OutcomeLine(status) ==
    IF ResponseOk(status)
    THEN [op |-> "logger.info",
          arg |-> "Successfully changed the Azure pipeline permissions."]
    ELSE [op |-> "logger.error",
          arg |-> "Failed to change the Azure pipeline permissions. Status code "
                    \o NumberToString(status) \o "."]

\* fetch rejects and the promise chain has no rejection handler
FetchError ==
    [name |-> "FetchError", message |-> "request failed"]

\* the rejection caught and logged
OnFetchRejectedCaught(error) ==
    [lines |-> <<[op |-> "logger.error",
                  arg |-> "Failed to change the Azure pipeline permissions."]>>,
     result |-> [status |-> "fulfilled"]]

OnFetchRejected(error) ==
    [lines |-> <<>>, result |-> [status |-> "rejected", reason |-> error]]

Pending == [status |-> "pending"]
Fulfilled == [status |-> "fulfilled"]
Rejected(error) == [status |-> "rejected", reason |-> error]

(***************************************************************************)
(* What the collaborators may answer.                                      *)
(***************************************************************************)
\* getCredentials: a credential of the integrations config, or undefined
CredentialAnswers ==
    {Undefined,
     [type |-> "pat", token |-> <<"c", "f", "g", "1">>],
     [type |-> "pat", token |-> <<"c", "f", "g", "2", "x">>]}

\* response.status of the PATCH
Statuses == {200, 204, 299, 300, 403, 500}

(***************************************************************************)
(* The inputs the schema of lines 40-98 admits, in small sets.             *)
(***************************************************************************)
Registries == {{"dev.azure.com", "ado.example.com"}, {"ado.example.com"}}

Omitted == <<>>

ServerOptions ==
    {Omitted, "server" :> "ado.example.com", "server" :> "unknown.example.com"}

VersionOptions == {Omitted, "permitsApiVersion" :> "6.0"}

TokenOptions == {Omitted, "token" :> <<"u", "s", "r">>, "token" :> <<>>}

PipelineIds ==
    {<<"4", "2">>, <<" ", "-", "7">>, <<"1", "2", "x">>, <<"a", "b", "c">>}

Required(organization, authorized, pipelineId) ==
    [organization |-> organization,
     project |-> "proj",
     resourceId |-> "res-1",
     resourceType |-> "endpoint",
     authorized |-> authorized,
     pipelineId |-> pipelineId]

\* every combination: one invocation of each is what Spec runs
RichInputs ==
    {Required("org", a, p) @@ s @@ v @@ t :
        a \in BOOLEAN, p \in PipelineIds,
        s \in ServerOptions, v \in VersionOptions, t \in TokenOptions}

\* the inputs of the repeated invocations of SpecRepeat
RepeatInputs ==
    {Required("org", TRUE, <<"4", "2">>) @@ s @@ t :
        s \in {Omitted, "server" :> "unknown.example.com"},
        t \in {Omitted, "token" :> <<"u", "s", "r">>}}

\* the inputs of the concurrent invocations of SpecConc
ConcInputs ==
    {Required("orgA", TRUE, <<"4", "2">>),
     Required("orgB", FALSE, <<"1", "2", "x">>) @@ "token" :> <<"u", "s", "r">>}

(***************************************************************************)
(* The state after construction (lines 23-26): the registry is given, no   *)
(* handler invocation has started.                                         *)
(***************************************************************************)
NoResult == [status |-> "none"]

Idle(registries, workloads) ==
    /\ integrations \in registries
    /\ todo \in workloads
    /\ pc = [i \in Slots |-> "idle"]
    /\ input = [i \in Slots |-> <<>>]
    /\ host = [i \in Slots |-> ""]
    /\ apiVersion = [i \in Slots |-> ""]
    /\ url = [i \in Slots |-> ""]
    /\ credentials = [i \in Slots |-> Undefined]
    /\ token = [i \in Slots |-> <<>>]
    /\ trace = [i \in Slots |-> <<>>]
    /\ result = [i \in Slots |-> NoResult]
    /\ sent = [i \in Slots |-> <<>>]
    /\ history = [i \in Slots |-> <<>>]

\* one invocation, any input
Init ==
    Idle(Registries,
         {[i \in Slots |-> IF i = 1 THEN <<inp>> ELSE <<>>] : inp \in RichInputs})

\* up to MaxInvocations invocations, one after the other
InitRepeat ==
    Idle(Registries,
         {[i \in Slots |-> IF i = 1 THEN w ELSE <<>>] :
            w \in UNION {[1..n -> RepeatInputs] : n \in 1..MaxInvocations}})

\* one invocation in every slot, running concurrently
InitConc ==
    Idle({{"dev.azure.com"}}, [Slots -> {<<inp>> : inp \in ConcInputs}])

(***************************************************************************)
(* Lines 100-126: the handler up to its first await.                       *)
(***************************************************************************)
Invoke(i) ==
    /\ pc[i] \in {"idle", "done"}
    /\ todo[i] # <<>>
    /\ LET inp == Head(todo[i])
           h == Host(inp)
           lookup == [op |-> "integrations.byHost", arg |-> h]
       IN  /\ todo' = [todo EXCEPT ![i] = Tail(@)]
           /\ input' = [input EXCEPT ![i] = inp]
           /\ host' = [host EXCEPT ![i] = h]
           /\ apiVersion' = [apiVersion EXCEPT ![i] = ApiVersion(inp)]
           /\ credentials' = [credentials EXCEPT ![i] = Undefined]
           /\ token' = [token EXCEPT ![i] = <<>>]
           /\ IF ByHost(integrations, h) = Undefined
              THEN /\ url' = [url EXCEPT ![i] = ""]
                   /\ trace' = [trace EXCEPT ![i] = <<lookup>>]
                   /\ result' = [result EXCEPT ![i] =
                                    Rejected(InputError(NoIntegrationMessage(h)))]
                   /\ pc' = [pc EXCEPT ![i] = "done"]
              ELSE LET u == BaseUrl(h, inp.organization)
                   IN  /\ url' = [url EXCEPT ![i] = u]
                       /\ trace' = [trace EXCEPT ![i] =
                                       <<lookup, [op |-> "getCredentials", arg |-> u]>>]
                       /\ result' = [result EXCEPT ![i] = Pending]
                       /\ pc' = [pc EXCEPT ![i] = "awaitCredentials"]
    /\ UNCHANGED <<integrations, sent, history>>

(***************************************************************************)
(* Lines 126-168: getCredentials answers, the handler runs on to fetch.    *)
(***************************************************************************)
Throw(i, cred, error) ==
    /\ trace' = [trace EXCEPT ![i] = Append(@, [op |-> "credentials", arg |-> cred])]
    /\ result' = [result EXCEPT ![i] = Rejected(error)]
    /\ pc' = [pc EXCEPT ![i] = "done"]
    /\ history' = [history EXCEPT ![i] =
                      Append(@, [input |-> input[i], credentials |-> cred,
                                 requests |-> <<>>])]
    /\ UNCHANGED <<token, sent>>

\* the consts held in one place shared by the invocations in flight
FrameShared(i) ==
    LET j == CHOOSE w \in Slots : pc[w] = "awaitCredentials"
    IN  [input |-> input[j], host |-> host[j], apiVersion |-> apiVersion[j],
         url |-> url[j]]

\* lines 101-122: the consts of the invocation that the await resumes
Frame(i) ==
    [input |-> input[i], host |-> host[i], apiVersion |-> apiVersion[i],
     url |-> url[i]]

\* fetch called before the intent line is logged
ResumeEventsFetchFirst(cred, inp, calls) ==
    <<[op |-> "credentials", arg |-> cred]>>
        \o [k \in DOMAIN calls |-> [op |-> "fetch", arg |-> calls[k]]]
        \o <<[op |-> "logger.info", arg |-> IntentLine(inp)]>>

\* lines 126-148 in the order they run: the answer, the intent line, fetch
ResumeEvents(cred, inp, calls) ==
    <<[op |-> "credentials", arg |-> cred],
      [op |-> "logger.info", arg |-> IntentLine(inp)]>>
        \o [k \in DOMAIN calls |-> [op |-> "fetch", arg |-> calls[k]]]

CredentialsResolved(i) ==
    /\ pc[i] = "awaitCredentials"
    /\ \E cred \in CredentialAnswers :
        LET frame == Frame(i)
        IN  /\ credentials' = [credentials EXCEPT ![i] = cred]
            /\ IF MissingCredentials(cred, frame.input)
               THEN Throw(i, cred, InputError(NoCredentialsMessage(frame.url)))
               ELSE IF TokenThrows(frame.input, cred)
               THEN Throw(i, cred, TypeError)
               ELSE LET tok == Token(frame.input, cred)
                        request == Request(frame.host, frame.input,
                                           frame.apiVersion, tok)
                        calls == Fetches(request)
                    IN  /\ token' = [token EXCEPT ![i] = tok]
                        /\ trace' = [trace EXCEPT ![i] =
                               @ \o ResumeEvents(cred, frame.input, calls)]
                        /\ sent' = [sent EXCEPT ![i] = @ \o calls]
                        /\ history' = [history EXCEPT ![i] =
                               Append(@, [input |-> input[i], credentials |-> cred,
                                          requests |-> calls])]
                        /\ pc' = [pc EXCEPT ![i] = "awaitFetch"]
                        /\ UNCHANGED result
    /\ UNCHANGED <<integrations, todo, input, host, apiVersion, url>>

(***************************************************************************)
(* Lines 169-179: a response arrives and the then-callback logs it.        *)
(***************************************************************************)
FetchResponse(i) ==
    /\ pc[i] = "awaitFetch"
    /\ \E status \in Statuses :
        trace' = [trace EXCEPT ![i] =
                     @ \o <<[op |-> "response", arg |-> status], OutcomeLine(status)>>]
    /\ result' = [result EXCEPT ![i] = Fulfilled]
    /\ pc' = [pc EXCEPT ![i] = "done"]
    /\ UNCHANGED <<integrations, todo, input, host, apiVersion, url, credentials,
                   token, sent, history>>

(***************************************************************************)
(* Lines 148-179: fetch rejects (no response); nothing catches it.         *)
(***************************************************************************)
FetchFailed(i) ==
    /\ pc[i] = "awaitFetch"
    /\ LET outcome == OnFetchRejected(FetchError)
       IN  /\ trace' = [trace EXCEPT ![i] =
                           Append(@, [op |-> "fetch.rejected", arg |-> FetchError])
                             \o outcome.lines]
           /\ result' = [result EXCEPT ![i] = outcome.result]
    /\ pc' = [pc EXCEPT ![i] = "done"]
    /\ UNCHANGED <<integrations, todo, input, host, apiVersion, url, credentials,
                   token, sent, history>>

Next ==
    \E i \in Slots :
        \/ Invoke(i)
        \/ CredentialsResolved(i)
        \/ FetchResponse(i)
        \/ FetchFailed(i)

Spec == Init /\ [][Next]_vars
SpecRepeat == InitRepeat /\ [][Next]_vars
SpecConc == InitConc /\ [][Next]_vars

(***************************************************************************)
(* What the properties read off the trace.                                 *)
(***************************************************************************)
Events(i, op) == {k \in DOMAIN trace[i] : trace[i][k].op = op}

LoggerLines(i) ==
    {k \in DOMAIN trace[i] : trace[i][k].op \in {"logger.info", "logger.error"}}

SuccessMessage == "Successfully changed the Azure pipeline permissions."

ResolvedHost(inp) ==
    IF "server" \in DOMAIN inp THEN inp.server ELSE "dev.azure.com"

Started(i) == pc[i] # "idle"

(***************************************************************************)
(* C1: an invocation whose resolved host (the input's server, or           *)
(* dev.azure.com when the server is omitted) has no integration in the     *)
(* registry ends rejected with an InputError whose message names that      *)
(* host, and calls neither getCredentials nor fetch.                       *)
(***************************************************************************)
C1_NoIntegrationFails ==
    \A i \in Slots :
        (Started(i) /\ ResolvedHost(input[i]) \notin integrations) =>
            /\ pc[i] = "done"
            /\ result[i].status = "rejected"
            /\ result[i].reason.name = "InputError"
            /\ result[i].reason.message =
                  "No matching integration configuration for host "
                      \o ResolvedHost(input[i])
                      \o ", please check your integrations config"
            /\ Events(i, "fetch") = {}
            /\ Events(i, "getCredentials") = {}
            /\ sent[i] = <<>>

C1_Witness ==
    \E i \in Slots :
        /\ pc[i] = "done"
        /\ "server" \notin DOMAIN input[i]
        /\ "dev.azure.com" \notin integrations
        /\ result[i].status = "rejected"
        /\ result[i].reason.message =
              "No matching integration configuration for host dev.azure.com, please check your integrations config"

(***************************************************************************)
(* C2: with a configured host, when the caller gives no token and          *)
(* getCredentials, asked for https://{host}/{organization}, answers        *)
(* undefined, the invocation ends rejected with an InputError and fetch is *)
(* not called.                                                             *)
(***************************************************************************)
C2_NoCredentialsFails ==
    \A i \in Slots :
        \A k \in Events(i, "credentials") :
            (trace[i][k].arg = Undefined /\ "token" \notin DOMAIN input[i]) =>
                /\ pc[i] = "done"
                /\ result[i].status = "rejected"
                /\ result[i].reason.name = "InputError"
                /\ result[i].reason.message =
                      "No credentials provided https://" \o ResolvedHost(input[i])
                          \o "/" \o input[i].organization
                          \o ", please check your integrations config"
                /\ \E m \in Events(i, "getCredentials") :
                      /\ m < k
                      /\ trace[i][m].arg =
                            "https://" \o ResolvedHost(input[i])
                                \o "/" \o input[i].organization
                /\ Events(i, "fetch") = {}
                /\ sent[i] = <<>>

C2_Witness ==
    \E i \in Slots :
        /\ pc[i] = "done"
        /\ "token" \notin DOMAIN input[i]
        /\ ResolvedHost(input[i]) \in integrations
        /\ \E k \in Events(i, "credentials") : trace[i][k].arg = Undefined
        /\ result[i].status = "rejected"

BasicOf(tok) ==
    CASE tok = <<"u", "s", "r">> -> "Basic UEFUOnVzcg=="
      [] tok = <<>> -> "Basic UEFUOg=="
      [] tok = <<"c", "f", "g", "1">> -> "Basic UEFUOmNmZzE="
      [] tok = <<"c", "f", "g", "2", "x">> -> "Basic UEFUOmNmZzJ4"

(***************************************************************************)
(* C3: the Authorization header of every PATCH is Basic followed by the    *)
(* base64 of PAT: and the caller's token whenever the input has a token,   *)
(* whatever getCredentials answered; it carries the provider's token only  *)
(* when the input has none.                                                *)
(***************************************************************************)
C3_CallerTokenWins ==
    \A i \in Slots :
        \A k \in Events(i, "fetch") :
            \E c \in Events(i, "credentials") :
                /\ c < k
                /\ trace[i][k].arg.headers["Authorization"] =
                      IF "token" \in DOMAIN input[i]
                      THEN BasicOf(input[i].token)
                      ELSE BasicOf(trace[i][c].arg.token)

C3_Witness ==
    \E i \in Slots :
        /\ "token" \in DOMAIN input[i]
        /\ input[i].token = <<"u", "s", "r">>
        /\ \E c \in Events(i, "credentials") :
              trace[i][c].arg = [type |-> "pat", token |-> <<"c", "f", "g", "1">>]
        /\ \E k \in Events(i, "fetch") :
              trace[i][k].arg.headers["Authorization"] = "Basic UEFUOnVzcg=="

ExpectedOutcome(status) ==
    CASE status \in 200..299 ->
            [op |-> "logger.info", arg |-> SuccessMessage]
      [] status = 300 ->
            [op |-> "logger.error",
             arg |-> "Failed to change the Azure pipeline permissions. Status code 300."]
      [] status = 403 ->
            [op |-> "logger.error",
             arg |-> "Failed to change the Azure pipeline permissions. Status code 403."]
      [] status = 500 ->
            [op |-> "logger.error",
             arg |-> "Failed to change the Azure pipeline permissions. Status code 500."]

(***************************************************************************)
(* C4: once a response has arrived the handler's promise is fulfilled and  *)
(* exactly one line was logged after fetch: the info line of success for a *)
(* status from 200 to 299, else an error line with the status code.        *)
(***************************************************************************)
C4_ResponseLoggedNotThrown ==
    \A i \in Slots :
        \A k \in Events(i, "response") :
            /\ pc[i] = "done"
            /\ result[i] = [status |-> "fulfilled"]
            /\ Len(trace[i]) = k + 1
            /\ trace[i][k + 1] = ExpectedOutcome(trace[i][k].arg)
            /\ \A f \in Events(i, "fetch") :
                  Cardinality({m \in LoggerLines(i) : m > f}) = 1

C4_Witness ==
    \E i \in Slots :
        \E k \in Events(i, "response") :
            /\ trace[i][k].arg = 403
            /\ result[i].status = "fulfilled"
            /\ trace[i][k + 1].op = "logger.error"

(***************************************************************************)
(* C5: when fetch rejects, the handler's promise is rejected with that     *)
(* failure, and neither the success line nor an error line is logged.      *)
(***************************************************************************)
C5_NetworkFailurePropagates ==
    \A i \in Slots :
        \A k \in Events(i, "fetch.rejected") :
            /\ pc[i] = "done"
            /\ result[i].status = "rejected"
            /\ result[i].reason = trace[i][k].arg
            /\ Events(i, "logger.error") = {}
            /\ \A m \in Events(i, "logger.info") : trace[i][m].arg # SuccessMessage
            /\ \A f \in Events(i, "fetch") : {m \in LoggerLines(i) : m > f} = {}

C5_Witness ==
    \E i \in Slots :
        /\ Events(i, "fetch.rejected") # {}
        /\ Events(i, "fetch") # {}
        /\ result[i].status = "rejected"
        /\ result[i].reason.name = "FetchError"

Entries == UNION {{<<i, k>> : k \in DOMAIN history[i]} : i \in Slots}

Entry(e) == history[e[1]][e[2]]

PassedBothChecks(entry) ==
    /\ ResolvedHost(entry.input) \in integrations
    /\ ~(entry.credentials = Undefined /\ "token" \notin DOMAIN entry.input)

RECURSIVE TotalSent(_)
TotalSent(n) == IF n = 0 THEN 0 ELSE Len(sent[n]) + TotalSent(n - 1)

OnePatchPerPassedInvocation ==
    /\ TotalSent(NumSlots) = Cardinality({e \in Entries : PassedBothChecks(Entry(e))})
    /\ \A e \in Entries :
          /\ Len(Entry(e).requests) = IF PassedBothChecks(Entry(e)) THEN 1 ELSE 0
          /\ \A k \in DOMAIN Entry(e).requests : Entry(e).requests[k].method = "PATCH"
    /\ \A i \in Slots :
          Len(sent[i]) = Cardinality({k \in DOMAIN history[i] :
                                        PassedBothChecks(history[i][k])})

(***************************************************************************)
(* C6, as claimed: the PATCH requests issued are as many as the            *)
(* invocations that passed the integration check and the credential check, *)
(* each of those issuing exactly one whatever came back, and two           *)
(* invocations with the same input issue identical requests.               *)
(***************************************************************************)
C6_SameInputSamePatch ==
    /\ OnePatchPerPassedInvocation
    /\ \A e1, e2 \in Entries :
          (Entry(e1).input = Entry(e2).input
              /\ PassedBothChecks(Entry(e1)) /\ PassedBothChecks(Entry(e2))) =>
                Entry(e1).requests = Entry(e2).requests

FixedHeaders == {"Content-Type", "Accept", "X-TFS-FedAuthRedirect"}

(***************************************************************************)
(* C6, amended: the PATCH requests issued are as many as the invocations   *)
(* that passed both checks, each of those issuing exactly one whatever     *)
(* came back; two invocations with the same input issue requests with the  *)
(* same method, URL, body and fixed headers, and with the same             *)
(* Authorization header when the input has a token or getCredentials gave  *)
(* both the same credential.                                               *)
(***************************************************************************)
C6_SameInputSameCredentialSamePatch ==
    /\ OnePatchPerPassedInvocation
    /\ \A e1, e2 \in Entries :
          (Entry(e1).input = Entry(e2).input
              /\ PassedBothChecks(Entry(e1)) /\ PassedBothChecks(Entry(e2))) =>
                LET r1 == Entry(e1).requests[1]
                    r2 == Entry(e2).requests[1]
                IN  /\ r1.method = r2.method
                    /\ r1.url = r2.url
                    /\ r1.body = r2.body
                    /\ \A h \in FixedHeaders : r1.headers[h] = r2.headers[h]
                    /\ ("token" \in DOMAIN Entry(e1).input
                            \/ Entry(e1).credentials = Entry(e2).credentials) =>
                          r1 = r2

C6_Witness ==
    /\ Len(history[1]) >= 2
    /\ history[1][1].input = history[1][2].input
    /\ "token" \notin DOMAIN history[1][1].input
    /\ history[1][1].credentials = history[1][2].credentials
    /\ Len(sent[1]) = 2
    /\ sent[1][1] = sent[1][2]
    /\ pc[1] = "done"
    /\ Events(1, "response") # {}

ResolvedVersion(inp) ==
    IF "permitsApiVersion" \in DOMAIN inp THEN inp.permitsApiVersion
    ELSE "7.1-preview.1"

(***************************************************************************)
(* C7: with server and permitsApiVersion omitted, the integration lookup,  *)
(* the URL the credentials are asked for and the URL of the PATCH all use  *)
(* dev.azure.com, and the PATCH URL ends in api-version=7.1-preview.1;     *)
(* a server or a version given in the input is used in their place.        *)
(***************************************************************************)
C7_Defaults ==
    \A i \in Slots :
        Started(i) =>
            LET inp == input[i]
            IN  /\ Events(i, "integrations.byHost") = {1}
                /\ trace[i][1].arg = ResolvedHost(inp)
                /\ \A k \in Events(i, "getCredentials") :
                      trace[i][k].arg =
                          "https://" \o ResolvedHost(inp) \o "/" \o inp.organization
                /\ \A k \in Events(i, "fetch") :
                      /\ trace[i][k].arg.method = "PATCH"
                      /\ trace[i][k].arg.url =
                            "https://" \o ResolvedHost(inp) \o "/" \o inp.organization
                                \o "/" \o inp.project
                                \o "/_apis/pipelines/pipelinepermissions/"
                                \o inp.resourceType \o "/" \o inp.resourceId
                                \o "?api-version=" \o ResolvedVersion(inp)
                      /\ (DOMAIN inp \cap {"server", "permitsApiVersion"} = {}) =>
                            trace[i][k].arg.url =
                                "https://dev.azure.com/org/proj/_apis/pipelines/pipelinepermissions/endpoint/res-1?api-version=7.1-preview.1"

C7_Witness ==
    \E i \in Slots :
        /\ Started(i)
        /\ DOMAIN input[i] \cap {"server", "permitsApiVersion"} = {}
        /\ \E k \in Events(i, "fetch") :
              trace[i][k].arg.url =
                  "https://dev.azure.com/org/proj/_apis/pipelines/pipelinepermissions/endpoint/res-1?api-version=7.1-preview.1"
        /\ \E k \in Events(i, "getCredentials") :
              trace[i][k].arg = "https://dev.azure.com/org"

\* the integer each pipelineId parses to, as JSON writes it; none for abc
ParsedIdText(pipelineId) ==
    CASE pipelineId = <<"4", "2">> -> <<"42">>
      [] pipelineId = <<" ", "-", "7">> -> <<"-7">>
      [] pipelineId = <<"1", "2", "x">> -> <<"12">>
      [] OTHER -> <<>>

(***************************************************************************)
(* C8: the body of every PATCH is the JSON object whose pipelines array    *)
(* has the one element {authorized, id}, authorized being the input's flag *)
(* and id the integer that the input's pipelineId parses to in base 10.    *)
(***************************************************************************)
C8_BodyHasIntegerId ==
    \A i \in Slots :
        \A k \in Events(i, "fetch") :
            LET id == ParsedIdText(input[i].pipelineId)
            IN  /\ id # <<>>
                /\ trace[i][k].arg.body =
                      "{\"pipelines\":[{\"authorized\":"
                          \o (IF input[i].authorized THEN "true" ELSE "false")
                          \o ",\"id\":" \o id[1] \o "}]}"

\* what the code does: the ids that parse are sent, the others as null
C8_BodyAsSent ==
    \A i \in Slots :
        \A k \in Events(i, "fetch") :
            LET id == ParsedIdText(input[i].pipelineId)
            IN  trace[i][k].arg.body =
                    "{\"pipelines\":[{\"authorized\":"
                        \o (IF input[i].authorized THEN "true" ELSE "false")
                        \o ",\"id\":" \o (IF id = <<>> THEN "null" ELSE id[1])
                        \o "}]}"

C8_Example ==
    \A i \in Slots :
        \A k \in Events(i, "fetch") :
            (input[i].authorized /\ input[i].pipelineId = <<"4", "2">>) =>
                trace[i][k].arg.body = "{\"pipelines\":[{\"authorized\":true,\"id\":42}]}"

Precedes(i, first, then) ==
    \A k \in Events(i, then) : \E m \in Events(i, first) : m < k

IdText(pipelineId) ==
    CASE pipelineId = <<"4", "2">> -> "42"
      [] pipelineId = <<" ", "-", "7">> -> " -7"
      [] pipelineId = <<"1", "2", "x">> -> "12x"
      [] pipelineId = <<"a", "b", "c">> -> "abc"

ExpectedIntent(inp) ==
    (IF inp.authorized THEN "Authorizing" ELSE "Unauthorizing")
        \o " Azure pipeline with ID " \o IdText(inp.pipelineId)
        \o " for endpoint with ID res-1."

IsOutcomeLine(event) ==
    \/ event.op = "logger.error"
    \/ event.op = "logger.info" /\ event.arg = SuccessMessage

(***************************************************************************)
(* C9: within one invocation the integration lookup comes before the call  *)
(* of getCredentials, its answer before the PATCH, the intent line         *)
(* (Authorizing or Unauthorizing) before the PATCH, and the outcome line   *)
(* only after the response; while the answer of getCredentials is awaited  *)
(* no PATCH has been issued.                                               *)
(***************************************************************************)
C9_StepsInOrder ==
    \A i \in Slots :
        /\ Precedes(i, "integrations.byHost", "getCredentials")
        /\ Precedes(i, "getCredentials", "credentials")
        /\ Precedes(i, "credentials", "fetch")
        /\ Precedes(i, "fetch", "response")
        /\ \A k \in Events(i, "fetch") :
              \E m \in Events(i, "logger.info") :
                  m < k /\ trace[i][m].arg = ExpectedIntent(input[i])
        /\ \A k \in LoggerLines(i) :
              IsOutcomeLine(trace[i][k]) =>
                  \E m \in Events(i, "response") : m < k
        /\ pc[i] = "awaitCredentials" =>
              /\ Events(i, "credentials") = {}
              /\ Events(i, "fetch") = {}
              /\ sent[i] = <<>>
        /\ pc[i] = "awaitFetch" =>
              /\ Cardinality(Events(i, "fetch")) = 1
              /\ Events(i, "response") = {}
              /\ \A k \in LoggerLines(i) : ~IsOutcomeLine(trace[i][k])

C9_Witness ==
    \E i \in Slots :
        /\ pc[i] = "done"
        /\ Len(trace[i]) = 7
        /\ trace[i][1].op = "integrations.byHost"
        /\ trace[i][2].op = "getCredentials"
        /\ trace[i][3].op = "credentials"
        /\ trace[i][4].op = "logger.info"
        /\ trace[i][5].op = "fetch"
        /\ trace[i][6].op = "response"
        /\ trace[i][7].op = "logger.error"

\* the handler run alone, up to its first await
AloneToCredentials(registry, inp) ==
    LET h == Host(inp)
        lookup == [op |-> "integrations.byHost", arg |-> h]
    IN  IF ByHost(registry, h) = Undefined
        THEN [trace |-> <<lookup>>,
              result |-> Rejected(InputError(NoIntegrationMessage(h)))]
        ELSE [trace |-> <<lookup,
                          [op |-> "getCredentials",
                           arg |-> BaseUrl(h, inp.organization)]>>,
              result |-> Pending]

\* ... and on to fetch, getCredentials having answered cred
AloneToFetch(registry, inp, cred) ==
    LET before == AloneToCredentials(registry, inp)
        answer == [op |-> "credentials", arg |-> cred]
    IN  IF cred = Undefined /\ ~Has(inp, "token")
        THEN [trace |-> Append(before.trace, answer),
              result |-> Rejected(InputError(
                            NoCredentialsMessage(BaseUrl(Host(inp), inp.organization))))]
        ELSE [trace |-> before.trace
                          \o <<answer,
                               [op |-> "logger.info", arg |-> IntentLine(inp)],
                               [op |-> "fetch",
                                arg |-> Request(Host(inp), inp, ApiVersion(inp),
                                                IF Has(inp, "token") THEN inp.token
                                                ELSE cred.token)]>>,
              result |-> Pending]

\* ... and to its end, fetch having answered with the last events of seen
AloneToEnd(registry, inp, cred, seen) ==
    LET before == AloneToFetch(registry, inp, cred)
        last == seen[Len(seen)]
    IN  IF last.op = "fetch.rejected"
        THEN [trace |-> Append(before.trace, last), result |-> Rejected(last.arg)]
        ELSE LET response == seen[Len(seen) - 1]
             IN  [trace |-> before.trace \o <<response, OutcomeLine(response.arg)>>,
                  result |-> Fulfilled]

Alone(registry, inp, stage, seen) ==
    IF Len(seen) < 3 THEN AloneToCredentials(registry, inp)
    ELSE IF stage = "awaitFetch" \/ Len(seen) = 3
    THEN AloneToFetch(registry, inp, seen[3].arg)
    ELSE AloneToEnd(registry, inp, seen[3].arg, seen)

(***************************************************************************)
(* C10: when invocations run concurrently, interleaved at their awaits,    *)
(* each one's calls on its collaborators (the PATCH with its URL, headers  *)
(* and body, the log lines) and its outcome are those of that invocation   *)
(* run alone with the same input and the same answers.                     *)
(***************************************************************************)
C10_ConcurrentAsAlone ==
    \A i \in Slots :
        Started(i) =>
            LET alone == Alone(integrations, input[i], pc[i], trace[i])
            IN  /\ trace[i] = alone.trace
                /\ result[i] = alone.result
                /\ sent[i] = [k \in 1..Cardinality(Events(i, "fetch")) |->
                                 alone.trace[5].arg]

\* both in flight at once, between their two awaits, with different tokens
C10_Witness ==
    /\ pc[1] = "awaitFetch"
    /\ pc[2] = "awaitFetch"
    /\ input[1].organization # input[2].organization
    /\ "token" \notin DOMAIN input[1]
    /\ token[1] = <<"c", "f", "g", "2", "x">>
    /\ token[2] = <<"u", "s", "r">>
    /\ sent[1] # sent[2]
    /\ Len(sent[1]) = 1
    /\ Len(sent[2]) = 1

====
